---- MODULE Spec2Model ----
(***************************************************************************)
(* gfx_text: the bitmap-font atlas builder (src/src/font.rs) and the text  *)
(* renderer (src/src/lib.rs) as state machines.                            *)
(*                                                                         *)
(* f32 values are modelled exactly: a value that the code only ever builds *)
(* from small integers is an Int, and a quotient of two integers is a      *)
(* reduced fraction <<n, d>> (d > 0), "NaN" for 0/0 and "inf" for n/0.     *)
(* Rounding of f32 is not modelled; the positions and sizes of the model   *)
(* are far below 2^24, where f32 holds every integer exactly.              *)
(***************************************************************************)
EXTENDS Integers, Sequences, FiniteSets, TLC

(***************************************************************************)
(* Bounds of the model.                                                    *)
(***************************************************************************)
\* longest explicit character slice handed to BitmapFont::new
MaxSlice == 2

\* largest current and desired size handed to grow_buffer_size
MaxCurrent == 128
MaxDesired == 300
\* doublings looked for in a result: 2^MaxDoublings > MaxDesired
MaxDoublings == 9

\* most setter calls made on one builder
MaxSetters == 3

\* longest text handed to add, add_anchored, add_at and measure
MaxText == 2
\* most quads pending between two flushes
MaxQuads == 2

\* characters: three the faces may map, one ("z") that no face maps
FaceChars == {"a", "b", " "}
Chars == FaceChars \cup {"z"}

(***************************************************************************)
(* The glyph source (FreeType), an external collaborator: what load_char   *)
(* with RENDER leaves in face.glyph().                                     *)
(***************************************************************************)
\* bitmap.buffer(): width * rows coverage bytes, row-major, all non-zero here
GlyphBuffer(w, r, ink) == [i \in 1..(w * r) |-> ink + i]

MkGlyph(w, r, left, top, adv, ink) ==
  [width |-> w, rows |-> r, bitmap_left |-> left, bitmap_top |-> top,
   advance_x |-> adv, buffer |-> GlyphBuffer(w, r, ink)]

\* an empty bitmap (whitespace), and three inked shapes
Glyphs ==
  { MkGlyph(0, 0, 0, 0, 2, 0),
    MkGlyph(1, 2, 0, 2, 2, 16),
    MkGlyph(2, 1, 1, 3, 2, 32),
    MkGlyph(3, 3, 0, 5, 3, 48) }

\* the glyph FreeType loads for a character code the face does not map
NotDef == MkGlyph(2, 2, 0, 2, 3, 64)

\* a face: its character map, and the characters whose load_char fails
Faces ==
  { [readable |-> TRUE, cmap |-> m, bad |-> b] :
      m \in UNION { [D -> Glyphs] : D \in SUBSET FaceChars },
      b \in {{}, {"b"}} }

\* font_size: u8
FontSizes == {4}

None == [some |-> FALSE]
Some(v) == [some |-> TRUE, val |-> v]

\* the slices a caller may pass as chars: Option<&[char]>
Slices == UNION { [1..n -> Chars] : n \in 0..MaxSlice }
CharsArgs == {None} \cup { Some(s) : s \in Slices }

(***************************************************************************)
(* Arithmetic helpers.                                                     *)
(***************************************************************************)
Max(a, b) == IF a >= b THEN a ELSE b

\* (n as f32).sqrt() as i32, for n >= 0
ISqrt(n) == CHOOSE r \in 0..n : r * r <= n /\ (r + 1) * (r + 1) > n

RECURSIVE Gcd(_, _)
Gcd(a, b) == IF b = 0 THEN a ELSE Gcd(b, a % b)

\* n as f32 / d as f32, for n >= 0 and d >= 0
FDiv(n, d) ==
  IF d = 0 THEN (IF n = 0 THEN "NaN" ELSE "inf")
  ELSE LET g == Gcd(n, d) IN <<n \div g, d \div g>>

\* f32 addition of two values FDiv made
FAdd(p, q) ==
  IF p = "NaN" \/ q = "NaN" THEN "NaN"
  ELSE IF p = "inf" \/ q = "inf" THEN "inf"
  ELSE FDiv(p[1] * q[2] + q[1] * p[2], p[2] * q[2])

\* p <= 1.0 in f32: false for NaN, as every comparison with NaN is
FLeOne(p) == p # "NaN" /\ p # "inf" /\ p[1] <= p[2]

\* the zeros repeat(0).take(n) yields
Zeros(n) == [i \in 1..n |-> 0]

\* the set of elements of a slice: HashSet::from_iter(sl.iter().cloned())
Range(s) == { s[i] : i \in 1..Len(s) }

\* every order in which a hash container may iterate the set S
Perms(S) ==
  { p \in [1..Cardinality(S) -> S] : \A i, j \in 1..Cardinality(S) : p[i] = p[j] => i = j }

(***************************************************************************)
(* BitmapFont::new, src/src/font.rs.                                       *)
(***************************************************************************)
get_all_face_chars(face) == DOMAIN face.cmap

\* lines 86-88
needed_chars(face, chars) ==
  IF chars.some THEN Range(chars.val) ELSE get_all_face_chars(face)

\* face.load_char(ch, RENDER); face.glyph()
load_char(face, ch) == IF ch \in DOMAIN face.cmap THEN face.cmap[ch] ELSE NotDef

\* lines 159-180: the BitmapChar the first pass stores for ch
FirstPassChar(face, font_size, ch) ==
  LET glyph == load_char(face, ch) IN
  [x_offset |-> glyph.bitmap_left,
   y_offset |-> font_size - glyph.bitmap_top,
   x_advance |-> glyph.advance_x,
   width |-> glyph.width,
   height |-> glyph.rows,
   tex |-> <<0, 0>>,
   tex_width |-> 0,
   tex_height |-> 0,
   data |-> Some(glyph.buffer)]

RECURSIVE SumWidth(_, _)
SumWidth(info, S) ==
  IF S = {} THEN 0
  ELSE LET ch == CHOOSE c \in S : TRUE IN info[ch].width + SumWidth(info, S \ {ch})

RECURSIVE MaxOver(_, _, _)
MaxOver(info, S, field) ==
  IF S = {} THEN 0
  ELSE LET ch == CHOOSE c \in S : TRUE IN Max(info[ch][field], MaxOver(info, S \ {ch}, field))

\* lines 149-185: chars_info and the three aggregates (sums and maxima do not
\* depend on the order the HashSet yields the characters in)
FirstPass(face, font_size, needed) ==
  LET info == [ch \in needed |-> FirstPassChar(face, font_size, ch)] IN
  [chars_info |-> info,
   sum_image_width |-> SumWidth(info, needed),
   max_ch_width |-> MaxOver(info, needed, "width"),
   ch_box_height |-> MaxOver(info, needed, "height")]

\* lines 197-199. (Lines 200-203 only reserve capacity for the two vectors;
\* assumed_ch_in_row is 0.0 / 0.0 when max_ch_width is 0, and NaN as usize is 0.)
ImageWidth(p1) ==
  LET ideal_image_size == p1.sum_image_width * p1.ch_box_height
      ideal_image_width == ISqrt(ideal_image_size)
  IN Max(p1.max_ch_width, ideal_image_width)

\* BoxLine without the skip of line 227: every row copies the bitmap's first
BoxLineNoSkip(box, i) ==
  LET width == box[1]
      height == box[2]
      data == box[3]
  IN IF i >= height THEN Zeros(width)
     ELSE SubSeq(data, 1, width)

\* lines 224-231: what row i of one character box adds to the image
BoxLine(box, i) ==
  LET width == box[1]
      height == box[2]
      data == box[3]
      skip == i * width
  IN IF i >= height THEN Zeros(width)
     ELSE SubSeq(data, skip + 1, skip + width)

\* lines 222-235: pixel row i of a shelf: the boxes' lines, then the fill
RECURSIVE RowLine(_, _, _, _, _)
RowLine(chars_row, i, k, x, image_width) ==
  IF k > Len(chars_row) THEN Zeros(image_width - x)
  ELSE BoxLine(chars_row[k], i) \o RowLine(chars_row, i, k + 1, x + chars_row[k][1], image_width)

\* lines 207-237: the closure dump_row
RECURSIVE DumpRows(_, _, _, _, _)
DumpRows(image, chars_row, i, ch_box_height, image_width) ==
  IF i >= ch_box_height THEN image
  ELSE DumpRows(image \o RowLine(chars_row, i, 1, 0, image_width),
                chars_row, i + 1, ch_box_height, image_width)

dump_row(image, chars_row, ch_box_height, image_width) ==
  DumpRows(image, chars_row, 0, ch_box_height, image_width)

\* PlaceChar without line 247: a new shelf starts at the height of the last
PlaceCharSameShelf(st, ch) ==
  LET info == st.chars_info[ch]
      wrap == st.cursor_x + info.width > st.image_width
      cursor_x == IF wrap THEN 0 ELSE st.cursor_x
  IN [st EXCEPT
        !.chars_row = Append(st.chars_row, <<info.width, info.height, info.data.val>>),
        !.cursor_x = cursor_x + info.width,
        !.chars_info[ch].tex = <<cursor_x, st.image_height>>,
        !.chars_info[ch].data = None]

\* lines 243-252: the body of the placing loop for one character
PlaceChar(st, ch) ==
  LET info == st.chars_info[ch]
      wrap == st.cursor_x + info.width > st.image_width
      image == IF wrap THEN dump_row(st.image, st.chars_row, st.ch_box_height, st.image_width)
               ELSE st.image
      chars_row == IF wrap THEN <<>> ELSE st.chars_row
      cursor_x == IF wrap THEN 0 ELSE st.cursor_x
      image_height == IF wrap THEN st.image_height + st.ch_box_height ELSE st.image_height
  IN [st EXCEPT
        !.image = image,
        !.chars_row = Append(chars_row, <<info.width, info.height, info.data.val>>),
        !.cursor_x = cursor_x + info.width,
        !.image_height = image_height,
        !.chars_info[ch].tex = <<cursor_x, image_height>>,
        !.chars_info[ch].data = None]

\* lines 242-253: the placing loop, over the order the HashMap iterates in
RECURSIVE PlaceAll(_, _, _)
PlaceAll(st, order, k) ==
  IF k > Len(order) THEN st ELSE PlaceAll(PlaceChar(st, order[k]), order, k + 1)

\* lines 197-255: the second pass, up to the last dump_row
SecondPass(p1, order) ==
  LET image_width == ImageWidth(p1)
      st0 == [chars_info |-> p1.chars_info,
              ch_box_height |-> p1.ch_box_height,
              image_width |-> image_width,
              image |-> <<>>,
              chars_row |-> <<>>,
              cursor_x |-> 0,
              image_height |-> 0]
      st == PlaceAll(st0, order, 1)
  IN [st EXCEPT
        !.image = dump_row(st.image, st.chars_row, st.ch_box_height, st.image_width),
        !.image_height = st.image_height + st.ch_box_height]

\* lines 260-265: one character's texture rectangle, normalized
Normalize(ch_info, image_width, image_height) ==
  [ch_info EXCEPT
     !.tex = <<FDiv(ch_info.tex[1], image_width), FDiv(ch_info.tex[2], image_height)>>,
     !.tex_width = FDiv(ch_info.width, image_width),
     !.tex_height = FDiv(ch_info.height, image_height)]

\* lines 260-275: the BitmapFont returned
Finish(st) ==
  [width |-> st.image_width % 65536,
   height |-> st.image_height % 65536,
   chars |-> [ch \in DOMAIN st.chars_info |->
                Normalize(st.chars_info[ch], st.image_width, st.image_height)],
   image |-> st.image]

Err(e) == [ok |-> FALSE, err |-> e]
Ok(v) == [ok |-> TRUE, val |-> v]

\* BitmapFont_new with the test of lines 89-91 moved below line 93
BitmapFont_newLateCheck(face, font_size, chars, sizeOk, before, order) ==
  LET needed == needed_chars(face, chars) IN
  IF ~sizeOk THEN [result |-> Err("FreetypeError"), sized |-> TRUE, loaded |-> {}, placed |-> None]
  ELSE IF needed = {}
       THEN [result |-> Err("EmptyFont"), sized |-> TRUE, loaded |-> {}, placed |-> None]
  ELSE LET st == SecondPass(FirstPass(face, font_size, needed), order)
       IN [result |-> Ok(Finish(st)), sized |-> TRUE, loaded |-> needed, placed |-> Some(st)]

\* lines 85-276. sizeOk: whether face.set_pixel_sizes succeeds; before: the
\* characters the first pass loads ahead of one whose load_char fails; order:
\* the order chars_info.iter_mut() yields the characters in. The value carries,
\* beside the FontResult, the FreeType calls made (sized, loaded) and the
\* locals at line 256 (placed: tex still in pixels).
BitmapFont_new(face, font_size, chars, sizeOk, before, order) ==
  LET needed == needed_chars(face, chars) IN
  IF needed = {}
  THEN [result |-> Err("EmptyFont"), sized |-> FALSE, loaded |-> {}, placed |-> None]
  ELSE IF ~sizeOk
       THEN [result |-> Err("FreetypeError"), sized |-> TRUE, loaded |-> {}, placed |-> None]
  ELSE IF needed \cap face.bad # {}
       THEN [result |-> Err("FreetypeError"), sized |-> TRUE,
             loaded |-> before \cup {CHOOSE c \in needed \cap face.bad : TRUE},
             placed |-> None]
  ELSE LET st == SecondPass(FirstPass(face, font_size, needed), order)
       IN [result |-> Ok(Finish(st)), sized |-> TRUE, loaded |-> needed, placed |-> Some(st)]

\* what ft::Library::init and new_face / new_memory_face give for a path or
\* for bytes: a face, or a FreeType error
Unreadable == [readable |-> FALSE]
FaceSources == Faces \cup {Unreadable}

\* lines 52-56 and 58-62: from_path and from_bytes
from_source(source, font_size, chars, sizeOk, before, order) ==
  IF ~source.readable
  THEN [result |-> Err("FreetypeError"), sized |-> FALSE, loaded |-> {}, placed |-> None]
  ELSE BitmapFont_new(source, font_size, chars, sizeOk, before, order)

from_path(path, font_size, chars, sizeOk, before, order) ==
  from_source(path, font_size, chars, sizeOk, before, order)

from_bytes(data, font_size, chars, sizeOk, before, order) ==
  from_source(data, font_size, chars, sizeOk, before, order)

(***************************************************************************)
(* The text renderer, src/src/lib.rs.                                      *)
(***************************************************************************)
DEFAULT_FONT_SIZE == 16
DEFAULT_BUFFER_SIZE == 128
DEFAULT_PROJECTION == "identity"

\* i32 division, which truncates toward zero
TruncDiv(a, b) == IF a >= 0 THEN a \div b ELSE -((-a) \div b)

\* font.rs 291-293
find_char(font, ch) ==
  IF ch \in DOMAIN font.chars THEN Some(font.chars[ch]) ELSE None

\* AddQuad with the indices of a quad counted from 0, not from line 360's index
AddQuadLocalIndex(acc, ch_info, y, world_pos, screen_rel, color) ==
  LET x_offset == acc.x + ch_info.x_offset
      y_offset == y + ch_info.y_offset
      tex == ch_info.tex
      index == 0
      v(pos, t) == [pos |-> pos, tex |-> t, world_pos |-> world_pos,
                    screen_rel |-> screen_rel, color |-> color]
  IN [vertex_data |-> acc.vertex_data \o
        << v(<<x_offset, y_offset>>, <<tex[1], tex[2]>>),
           v(<<x_offset, y_offset + ch_info.height>>,
             <<tex[1], FAdd(tex[2], ch_info.tex_height)>>),
           v(<<x_offset + ch_info.width, y_offset + ch_info.height>>,
             <<FAdd(tex[1], ch_info.tex_width), FAdd(tex[2], ch_info.tex_height)>>),
           v(<<x_offset + ch_info.width, y_offset>>,
             <<FAdd(tex[1], ch_info.tex_width), tex[2]>>) >>,
      index_data |-> acc.index_data \o
        << index + 0, index + 1, index + 3, index + 3, index + 1, index + 2 >>,
      x |-> acc.x + ch_info.x_advance]

\* AddQuad with the bottom-right and top-right vertices pushed in the other
\* order (lines 383-405), the indices as they are
AddQuadSwapped(acc, ch_info, y, world_pos, screen_rel, color) ==
  LET x_offset == acc.x + ch_info.x_offset
      y_offset == y + ch_info.y_offset
      tex == ch_info.tex
      index == Len(acc.vertex_data)
      v(pos, t) == [pos |-> pos, tex |-> t, world_pos |-> world_pos,
                    screen_rel |-> screen_rel, color |-> color]
  IN [vertex_data |-> acc.vertex_data \o
        << v(<<x_offset, y_offset>>, <<tex[1], tex[2]>>),
           v(<<x_offset, y_offset + ch_info.height>>,
             <<tex[1], FAdd(tex[2], ch_info.tex_height)>>),
           v(<<x_offset + ch_info.width, y_offset>>,
             <<FAdd(tex[1], ch_info.tex_width), tex[2]>>),
           v(<<x_offset + ch_info.width, y_offset + ch_info.height>>,
             <<FAdd(tex[1], ch_info.tex_width), FAdd(tex[2], ch_info.tex_height)>>) >>,
      index_data |-> acc.index_data \o
        << index + 0, index + 1, index + 3, index + 3, index + 1, index + 2 >>,
      x |-> acc.x + ch_info.x_advance]

\* lines 357-412: the quad of one character of the atlas, and the cursor after it.
\* acc: the two pending lists and the cursor x.
AddQuad(acc, ch_info, y, world_pos, screen_rel, color) ==
  LET x_offset == acc.x + ch_info.x_offset
      y_offset == y + ch_info.y_offset
      tex == ch_info.tex
      index == Len(acc.vertex_data)  \* as u32: the lengths here are far below 2^32
      v(pos, t) == [pos |-> pos, tex |-> t, world_pos |-> world_pos,
                    screen_rel |-> screen_rel, color |-> color]
  IN [vertex_data |-> acc.vertex_data \o
        << v(<<x_offset, y_offset>>, <<tex[1], tex[2]>>),
           v(<<x_offset, y_offset + ch_info.height>>,
             <<tex[1], FAdd(tex[2], ch_info.tex_height)>>),
           v(<<x_offset + ch_info.width, y_offset + ch_info.height>>,
             <<FAdd(tex[1], ch_info.tex_width), FAdd(tex[2], ch_info.tex_height)>>),
           v(<<x_offset + ch_info.width, y_offset>>,
             <<FAdd(tex[1], ch_info.tex_width), tex[2]>>) >>,
      index_data |-> acc.index_data \o
        << index + 0, index + 1, index + 3, index + 3, index + 1, index + 2 >>,
      x |-> acc.x + ch_info.x_advance]

\* AddLoop with the continue of line 355 written break
RECURSIVE AddLoopBreak(_, _, _, _, _, _, _, _)
AddLoopBreak(font, acc, text, k, y, world_pos, screen_rel, color) ==
  IF k > Len(text) THEN acc
  ELSE LET found == find_char(font, text[k]) IN
       IF ~found.some THEN acc
       ELSE AddLoopBreak(font, AddQuad(acc, found.val, y, world_pos, screen_rel, color),
                         text, k + 1, y, world_pos, screen_rel, color)

\* lines 349-413: the loop over text.chars(), from its k-th character on
RECURSIVE AddLoop(_, _, _, _, _, _, _, _)
AddLoop(font, acc, text, k, y, world_pos, screen_rel, color) ==
  IF k > Len(text) THEN acc
  ELSE LET found == find_char(font, text[k]) IN
       IF ~found.some
       THEN AddLoop(font, acc, text, k + 1, y, world_pos, screen_rel, color)
       ELSE AddLoop(font, AddQuad(acc, found.val, y, world_pos, screen_rel, color),
                    text, k + 1, y, world_pos, screen_rel, color)

\* lines 342-414. pos: Ok(screen position) or Err(world position). Gives the
\* two pending lists, and the cursor x the loop ends with.
add_generic(font, vertex_data, index_data, text, pos, color) ==
  LET screen_pos == IF pos.ok THEN pos.val ELSE <<0, 0>>
      world_pos == IF pos.ok THEN <<0, 0, 0>> ELSE pos.err
      screen_rel == IF pos.ok THEN 1 ELSE 0
  IN AddLoop(font,
             [vertex_data |-> vertex_data, index_data |-> index_data, x |-> screen_pos[1]],
             text, 1, screen_pos[2], world_pos, screen_rel, color)

\* lines 514-523: the loop of measure, from the k-th character on
RECURSIVE MeasureLoop(_, _, _, _)
MeasureLoop(font, m, text, k) ==
  IF k > Len(text) THEN m
  ELSE LET found == find_char(font, text[k]) IN
       IF ~found.some THEN MeasureLoop(font, m, text, k + 1)
       ELSE MeasureLoop(font,
                        [width |-> m.width + found.val.x_advance,
                         height |-> Max(m.height, found.val.y_offset + found.val.height),
                         last_char |-> found],
                        text, k + 1)

\* measure with the height of the tallest glyph of the font (the TODO of
\* lines 505-507)
measureTallest(font, text) ==
  LET m == MeasureLoop(font, [width |-> 0, height |-> 0, last_char |-> None], text, 1)
      width == IF m.last_char.some
               THEN m.width + m.last_char.val.x_offset + m.last_char.val.width
                    - m.last_char.val.x_advance
               ELSE m.width
  IN <<width, MaxOver(font.chars, DOMAIN font.chars, "height")>>

\* measure without lines 525-528
measureAdvance(font, text) ==
  LET m == MeasureLoop(font, [width |-> 0, height |-> 0, last_char |-> None], text, 1)
  IN <<m.width, m.height>>

\* lines 509-531
measure(font, text) ==
  LET m == MeasureLoop(font, [width |-> 0, height |-> 0, last_char |-> None], text, 1)
      width == IF m.last_char.some
               THEN m.width + m.last_char.val.x_offset + m.last_char.val.width
                    - m.last_char.val.x_advance
               ELSE m.width
  IN <<width, m.height>>

\* lines 310-312
add(font, vertex_data, index_data, text, pos, color) ==
  add_generic(font, vertex_data, index_data, text, Ok(pos), color)

\* lines 338-340
add_at(font, vertex_data, index_data, text, pos, color) ==
  add_generic(font, vertex_data, index_data, text, Err(pos), color)

\* add_anchored with line 325's width / 2 written width
add_anchoredNoHalf(font, vertex_data, index_data, text, pos, horizontal, vertical, color) ==
  IF horizontal = "Left" /\ vertical = "Top"
  THEN add_generic(font, vertex_data, index_data, text, Ok(pos), color)
  ELSE LET m == measure(font, text)
           x == CASE horizontal = "Left" -> pos[1]
                  [] horizontal = "Center" -> pos[1] - m[1]
                  [] horizontal = "Right" -> pos[1] - m[1]
           y == CASE vertical = "Top" -> pos[2]
                  [] vertical = "Center" -> pos[2] - TruncDiv(m[2], 2)
                  [] vertical = "Bottom" -> pos[2] - m[2]
       IN add_generic(font, vertex_data, index_data, text, Ok(<<x, y>>), color)

\* lines 316-335
add_anchored(font, vertex_data, index_data, text, pos, horizontal, vertical, color) ==
  IF horizontal = "Left" /\ vertical = "Top"
  THEN add_generic(font, vertex_data, index_data, text, Ok(pos), color)
  ELSE LET m == measure(font, text)
           width == m[1]
           height == m[2]
           x == CASE horizontal = "Left" -> pos[1]
                  [] horizontal = "Center" -> pos[1] - TruncDiv(width, 2)
                  [] horizontal = "Right" -> pos[1] - width
           y == CASE vertical = "Top" -> pos[2]
                  [] vertical = "Center" -> pos[2] - TruncDiv(height, 2)
                  [] vertical = "Bottom" -> pos[2] - height
       IN add_generic(font, vertex_data, index_data, text, Ok(<<x, y>>), color)

\* lines 536-544: the while loop
RECURSIVE GrowLoop(_, _)
GrowLoop(current_size, desired_size) ==
  IF current_size < desired_size THEN GrowLoop(current_size * 2, desired_size)
  ELSE current_size

\* grow_buffer_size that grows to the desired size itself
grow_buffer_sizeExact(current_size, desired_size) ==
  Max(Max(current_size, 1), desired_size)

\* grow_buffer_size with line 540's < written <=
grow_buffer_sizeEager(current_size, desired_size) ==
  IF Max(current_size, 1) <= desired_size
  THEN GrowLoop(2 * Max(current_size, 1), desired_size + 1)
  ELSE Max(current_size, 1)

\* lines 536-544
grow_buffer_size(current_size, desired_size) ==
  GrowLoop(IF current_size < 1 THEN 1 ELSE current_size, desired_size)

\* Realloc that sizes the buffer for the pending list alone
ReallocToFit(len, buf_len) ==
  IF len # buf_len THEN grow_buffer_size(0, len) ELSE buf_len

\* Realloc that doubles the capacity once, whatever the pending list needs
ReallocOneDoubling(len, buf_len) ==
  IF len > buf_len THEN 2 * Max(buf_len, 1) ELSE buf_len

\* Realloc with the > of lines 457 and 463 written >=
ReallocWhenFull(len, buf_len) ==
  IF len >= buf_len THEN grow_buffer_size(buf_len, len) ELSE buf_len

\* lines 457-462 and 463-468: the capacity of a buffer after the reallocation
\* test, for len pending items and a buffer of buf_len
Realloc(len, buf_len) ==
  IF len > buf_len THEN grow_buffer_size(buf_len, len) ELSE buf_len

\* encoder.update_buffer(buf, data, 0) of gfx: an error when the data does
\* not fit the buffer
update_buffer(buf_len, data) ==
  IF Len(data) > buf_len THEN Err("UpdateError") ELSE Ok(Len(data))

\* lines 289-306. psoOk: whether factory.create_pipeline_state succeeds
prepare_pso(pso_map, format, psoOk) ==
  IF format \in pso_map THEN [ret |-> Ok("unit"), pso_map |-> pso_map]
  ELSE IF ~psoOk THEN [ret |-> Err("PipelineError"), pso_map |-> pso_map]
  ELSE [ret |-> Ok("unit"), pso_map |-> pso_map \cup {format}]

\* lines 442-503. r: the renderer's fields. Gives the fields after the call,
\* what it returned, what was uploaded (the lengths sent and the capacities
\* they were sent to) and the draw call issued, if any.
draw_at(r, format, proj, psoOk) ==
  LET ver_len == Len(r.vertex_data)
      ver_buf_len == r.vertex_buffer
      ind_len == Len(r.index_data)
      ind_buf_len == r.index_buffer
      vertex_buffer == Realloc(ver_len, ver_buf_len)
      index_buffer == Realloc(ind_len, ind_buf_len)
      grown == [r EXCEPT !.vertex_buffer = vertex_buffer, !.index_buffer = index_buffer]
      up_v == update_buffer(vertex_buffer, r.vertex_data)
      up_i == update_buffer(index_buffer, r.index_data)
      ni == Len(r.index_data)  \* as gfx::VertexCount (u32)
      pso == prepare_pso(r.pso_map, format, psoOk)
      uploaded == [vertices |-> r.vertex_data, indices |-> r.index_data,
                   vertex_buffer |-> vertex_buffer, index_buffer |-> index_buffer]
  IN IF ~up_v.ok
     THEN [r |-> grown, ret |-> up_v, uploaded |-> None, draw_call |-> None]
     ELSE IF ~up_i.ok
     THEN [r |-> grown, ret |-> up_i, uploaded |-> None, draw_call |-> None]
     ELSE IF ~pso.ret.ok
     THEN [r |-> grown, ret |-> pso.ret, uploaded |-> Some(uploaded), draw_call |-> None]
     ELSE [r |-> [grown EXCEPT !.pso_map = pso.pso_map,
                               !.vertex_data = <<>>,
                               !.index_data = <<>>],
           ret |-> Ok("unit"),
           uploaded |-> Some(uploaded),
           draw_call |-> Some([start |-> 0, end |-> ni, base_vertex |-> 0,
                               format |-> format, proj |-> proj])]

\* lines 425-431
draw(r, format, psoOk) == draw_at(r, format, DEFAULT_PROJECTION, psoOk)

(***************************************************************************)
(* RendererBuilder, src/src/lib.rs 149-286.                                *)
(***************************************************************************)
\* the face of assets/NotoSans-Regular.ttf, and the face of a caller's font
DefaultFace ==
  [readable |-> TRUE,
   cmap |-> [ch \in {"a", "b"} |->
               IF ch = "a" THEN MkGlyph(1, 2, 0, 2, 2, 16) ELSE MkGlyph(3, 3, 0, 5, 3, 48)],
   bad |-> {}]
CallerFace ==
  [readable |-> TRUE,
   cmap |-> [ch \in {"a", "b"} |->
               IF ch = "a" THEN MkGlyph(2, 1, 1, 3, 2, 32) ELSE MkGlyph(1, 1, -4, 18, 1, 80)],
   bad |-> {}]

\* the face of the font bytes a caller hands to with_font_data
CallerData ==
  [readable |-> TRUE,
   cmap |-> [ch \in {"a", "b"} |->
               IF ch = "a" THEN MkGlyph(2, 2, 0, 2, 3, 64) ELSE MkGlyph(1, 2, 0, 2, 2, 16)],
   bad |-> {}]

\* lines 57-62: DEFAULT_FONT_DATA, by the feature "include-font"
DEFAULT_FONT_DATA(include_font) == IF include_font THEN Some(DefaultFace) ELSE None

\* lines 175-188
RendererBuilder_new(include_font) ==
  [font_size |-> DEFAULT_FONT_SIZE,
   font_path |-> None,
   font_data |-> DEFAULT_FONT_DATA(include_font),
   buffer_size |-> DEFAULT_BUFFER_SIZE,
   chars |-> None]

\* lines 191-227
with_size(b, size) == [b EXCEPT !.font_size = size]
with_font(b, path) == [b EXCEPT !.font_path = Some(path)]
with_font_data(b, data) == [b EXCEPT !.font_data = Some(data)]
with_buffer_size(b, size) == [b EXCEPT !.buffer_size = size]
with_chars(b, chars) == [b EXCEPT !.chars = Some(chars)]

\* build with the match of lines 248-255 looking at font_data before font_path
buildDataFirst(b, sizeOk, before, order, texOk, shadersOk) ==
  LET font == IF b.font_data.some
              THEN from_bytes(b.font_data.val, b.font_size, b.chars, sizeOk, before, order).result
              ELSE IF b.font_path.some
              THEN from_path(b.font_path.val, b.font_size, b.chars, sizeOk, before, order).result
              ELSE Err("NoFont")
  IN IF ~font.ok THEN Err(font.err)
     ELSE IF ~texOk THEN Err("CombinedError")
     ELSE IF ~shadersOk THEN Err("ProgramError")
     ELSE Ok([font_bitmap |-> font.val,
              vertex_data |-> <<>>,
              index_data |-> <<>>,
              vertex_buffer |-> b.buffer_size,
              index_buffer |-> b.buffer_size,
              pso_map |-> {}])

\* lines 230-280. texOk, shadersOk: whether the factory makes the texture and
\* the shader set; the rest as for BitmapFont::new.
build(b, sizeOk, before, order, texOk, shadersOk) ==
  LET font == IF b.font_path.some
              THEN from_path(b.font_path.val, b.font_size, b.chars, sizeOk, before, order).result
              ELSE IF b.font_data.some
              THEN from_bytes(b.font_data.val, b.font_size, b.chars, sizeOk, before, order).result
              ELSE Err("NoFont")
  IN IF ~font.ok THEN Err(font.err)
     ELSE IF ~texOk THEN Err("CombinedError")
     ELSE IF ~shadersOk THEN Err("ProgramError")
     ELSE Ok([font_bitmap |-> font.val,
              vertex_data |-> <<>>,
              index_data |-> <<>>,
              vertex_buffer |-> b.buffer_size,
              index_buffer |-> b.buffer_size,
              pso_map |-> {}])

\* the builders the renderers of the model are built from
RenderBuilders ==
  { with_buffer_size(RendererBuilder_new(TRUE), 0),
    with_buffer_size(
      with_chars(with_font(RendererBuilder_new(FALSE), CallerFace), <<"b", "z">>), 3) }

\* the arguments of the calls on a builder
BuilderSizes == {4}
BuilderPaths == {CallerFace, Unreadable}
BuilderDatas == {CallerData}
BuilderBufferSizes == {0}
BuilderChars == {<<"a">>, <<>>}

\* the arguments of the calls on a renderer
TextChars == {"b", "z"}
Texts == UNION { [1..n -> TextChars] : n \in 0..MaxText }
ScreenPositions == {<<10, 7>>}
WorldPositions == {<<1, 2, 3>>}
Colors == {<<1, 0, 0, 1>>}
Anchors == {"Left", "Center", "Right"} \X {"Top", "Center", "Bottom"}
Formats == {"Rgba8"}
Projections == {"camera"}

(***************************************************************************)
(* State.                                                                  *)
(***************************************************************************)
VARIABLES
  f_call,         \* the last BitmapFont::from_* call: its arguments
  f_out,          \* what that call returned, and what it did on the way
  f_again,        \* what the same call returned when it was made a second time
  g_call,         \* the arguments of a grow_buffer_size call
  g_ret,          \* what that call returned
  builder,        \* a RendererBuilder: its fields
  b_log,          \* the calls made on that builder: function and argument
  b_ret,          \* what build returned, and what the environment did in it
  font_bitmap,    \* Renderer.font_bitmap
  vertex_data,    \* Renderer.vertex_data: the pending vertices
  index_data,     \* Renderer.index_data: the pending indices
  vertex_buffer,  \* Renderer.vertex_buffer: its capacity, vertex_buffer.len()
  index_buffer,   \* Renderer.index_buffer: its capacity, index_buffer.len()
  pso_map,        \* Renderer.pso_map: the formats a pipeline state is cached for
  last            \* the last call on the renderer: arguments, result, effects

fvars == <<f_call, f_out, f_again>>
gvars == <<g_call, g_ret>>
bvars == <<builder, b_log, b_ret>>
rvars == <<font_bitmap, vertex_data, index_data, vertex_buffer, index_buffer, pso_map, last>>
vars == <<f_call, f_out, f_again, g_call, g_ret, builder, b_log, b_ret, font_bitmap, vertex_data, index_data,
          vertex_buffer, index_buffer, pso_map, last>>

NoCall == [fn |-> "none", op |-> "none"]

\* the parts of the state a specification does not exercise
FontIdle == f_call = NoCall /\ f_out = None /\ f_again = None
GrowIdle == g_call = NoCall /\ g_ret = None
BuildIdle == builder = None /\ b_log = <<>> /\ b_ret = None
RenderIdle ==
  /\ font_bitmap = None /\ vertex_data = <<>> /\ index_data = <<>>
  /\ vertex_buffer = 0 /\ index_buffer = 0 /\ pso_map = {} /\ last = NoCall

(***************************************************************************)
(* The atlas builder as a state machine. The from_* constructors keep no    *)
(* state from one call to the next, so a behaviour is one call.            *)
(***************************************************************************)
FontInit == FontIdle /\ GrowIdle /\ BuildIdle /\ RenderIdle

\* the inputs of one call that the environment decides
FontCall(fn, source, font_size, chars, sizeOk, before, order) ==
  [fn |-> fn, source |-> source, font_size |-> font_size, chars |-> chars,
   sizeOk |-> sizeOk, before |-> before, order |-> order]

\* whether a call gets as far as the first pass, and as far as the second
ReachesFirstPass(source, chars, sizeOk) ==
  source.readable /\ sizeOk /\ needed_chars(source, chars) # {}
ReachesSecondPass(source, chars, sizeOk) ==
  ReachesFirstPass(source, chars, sizeOk) /\ needed_chars(source, chars) \cap source.bad = {}

\* what the hash containers may do in a call: the characters the HashSet
\* yields ahead of a failing one, and the order the HashMap is placed in
BeforeOf(source, chars, sizeOk) ==
  IF ReachesFirstPass(source, chars, sizeOk) /\ ~ReachesSecondPass(source, chars, sizeOk)
  THEN SUBSET (needed_chars(source, chars) \ source.bad)
  ELSE {{}}
OrdersOf(source, chars, sizeOk) ==
  IF ReachesSecondPass(source, chars, sizeOk)
  THEN Perms(needed_chars(source, chars))
  ELSE {<<>>}

FromPath ==
  /\ f_call = NoCall
  /\ \E path \in FaceSources, font_size \in FontSizes, chars \in CharsArgs, sizeOk \in BOOLEAN :
       \E before \in BeforeOf(path, chars, sizeOk), order \in OrdersOf(path, chars, sizeOk) :
         /\ f_call' = FontCall("from_path", path, font_size, chars, sizeOk, before, order)
         /\ f_out' = from_path(path, font_size, chars, sizeOk, before, order)
         /\ f_again' = f_again

FromBytes ==
  /\ f_call = NoCall
  /\ \E data \in FaceSources, font_size \in FontSizes, chars \in CharsArgs, sizeOk \in BOOLEAN :
       \E before \in BeforeOf(data, chars, sizeOk), order \in OrdersOf(data, chars, sizeOk) :
         /\ f_call' = FontCall("from_bytes", data, font_size, chars, sizeOk, before, order)
         /\ f_out' = from_bytes(data, font_size, chars, sizeOk, before, order)
         /\ f_again' = f_again

\* the same constructor called again on the same font source, pixel size and
\* character set: FreeType answers as before, and the hash containers of the
\* new call (a HashSet and a HashMap with a RandomState of their own) iterate
\* in an order of their own
Rebuild ==
  /\ f_call # NoCall
  /\ f_again = None
  /\ \E before \in BeforeOf(f_call.source, f_call.chars, f_call.sizeOk),
        order \in OrdersOf(f_call.source, f_call.chars, f_call.sizeOk) :
       f_again' = Some(IF f_call.fn = "from_path"
                       THEN from_path(f_call.source, f_call.font_size, f_call.chars,
                                      f_call.sizeOk, before, order)
                       ELSE from_bytes(f_call.source, f_call.font_size, f_call.chars,
                                       f_call.sizeOk, before, order))
  /\ UNCHANGED <<f_call, f_out>>

FontNext == (FromPath \/ FromBytes \/ Rebuild) /\ UNCHANGED <<gvars, bvars, rvars>>

SpecFont == FontInit /\ [][FontNext]_vars

(***************************************************************************)
(* Properties of the atlas builder.                                        *)
(***************************************************************************)
\* a finished call that reached BitmapFont::new
NewCalled == f_call # NoCall /\ f_call.source.readable

\* the resolved character set of the finished call
Needed == needed_chars(f_call.source, f_call.chars)

\* the call's glyphs all rasterize: set_pixel_sizes and every load_char succeed
AllRasterize == f_call.sizeOk /\ Needed \cap f_call.source.bad = {}

\* the pixel rectangle [x, x + width) x [y, y + height) the packer gave ch
PixelRect(ch) ==
  LET info == f_out.placed.val.chars_info[ch] IN
  [x |-> info.tex[1], y |-> info.tex[2], w |-> info.width, h |-> info.height]

Min(a, b) == IF a <= b THEN a ELSE b

\* two rectangles share a pixel
Overlap(r, q) ==
  /\ Max(r.x, q.x) < Min(r.x + r.w, q.x + q.w)
  /\ Max(r.y, q.y) < Min(r.y + r.h, q.y + q.h)

\* C1: for every non-empty character set whose glyphs all rasterize,
\* BitmapFont::new succeeds, and the pixel rectangles of any two distinct
\* characters of the atlas share no pixel, whatever the packing order.
C1_NoOverlap ==
  (NewCalled /\ Needed # {} /\ AllRasterize) =>
    /\ f_out.result.ok
    /\ DOMAIN f_out.result.val.chars = Needed
    /\ \A c1, c2 \in Needed : c1 # c2 => ~Overlap(PixelRect(c1), PixelRect(c2))

\* C1 witness: an atlas of three inked glyphs on more than one shelf
C1_Witness ==
  /\ NewCalled /\ f_out.result.ok
  /\ Cardinality(Needed) = 3
  /\ \A c \in Needed : PixelRect(c).w > 0 /\ PixelRect(c).h > 0
  /\ \E c \in Needed : PixelRect(c).y > 0

\* C2 (as claimed): for every glyph of a built atlas, in pixels
\* x + width <= image_width and y + height <= image_height, and normalized
\* tex.x + tex_width <= 1.0 and tex.y + tex_height <= 1.0, for every
\* character set and every packing order.
C2_TexInUnitSquare ==
  (NewCalled /\ f_out.result.ok) =>
    \A ch \in Needed :
      LET r == PixelRect(ch)
          info == f_out.result.val.chars[ch]
      IN /\ r.x + r.w <= f_out.placed.val.image_width
         /\ r.y + r.h <= f_out.placed.val.image_height
         /\ FLeOne(FAdd(info.tex[1], info.tex_width))
         /\ FLeOne(FAdd(info.tex[2], info.tex_height))

\* C3: building with an empty resolved character set (an explicit empty
\* slice, or a face that enumerates no characters) fails with EmptyFont and
\* returns no atlas, before FreeType is asked to size or rasterize anything.
C3_EmptyFont ==
  (NewCalled /\ Needed = {}) =>
    /\ f_out.result = Err("EmptyFont")
    /\ ~f_out.sized
    /\ f_out.loaded = {}
    /\ f_out.placed = None

\* C3 witness: an explicit empty slice against a face that maps characters,
\* with a set_pixel_sizes that would have failed
C3_Witness ==
  /\ NewCalled
  /\ f_call.chars = Some(<<>>)
  /\ DOMAIN f_call.source.cmap # {}
  /\ ~f_call.sizeOk
  /\ f_out.result = Err("EmptyFont")

\* the metrics of one character of a built atlas that the claims compare
Metrics(info) ==
  [x_offset |-> info.x_offset, y_offset |-> info.y_offset, x_advance |-> info.x_advance,
   width |-> info.width, height |-> info.height,
   tex |-> info.tex, tex_width |-> info.tex_width, tex_height |-> info.tex_height]

\* C14 (as claimed): building an atlas twice from the same font source, pixel
\* size and character set yields identical glyph metrics for every character:
\* the same x_offset, y_offset, x_advance, width, height and the same
\* normalized texture rectangle (tex, tex_width, tex_height), whatever order
\* the hash containers iterate the characters in.
C14_RebuildSameMetrics ==
  (f_again.some /\ f_out.result.ok /\ f_again.val.result.ok) =>
    /\ DOMAIN f_again.val.result.val.chars = DOMAIN f_out.result.val.chars
    /\ \A ch \in DOMAIN f_out.result.val.chars :
         Metrics(f_again.val.result.val.chars[ch]) = Metrics(f_out.result.val.chars[ch])

\* the byte of the atlas image at column x, row y, the image being row-major
ImageAt(x, y) == f_out.result.val.image[y * f_out.placed.val.image_width + x + 1]

\* the byte at column i, row j of the bitmap FreeType rendered for ch
BitmapAt(ch, i, j) ==
  LET glyph == load_char(f_call.source, ch) IN glyph.buffer[j * glyph.width + i + 1]

\* pixel (x, y) lies in the rectangle of ch
Covers(ch, x, y) ==
  LET r == PixelRect(ch) IN
  x >= r.x /\ x < r.x + r.w /\ y >= r.y /\ y < r.y + r.h

\* the shelves of the atlas: the rows of boxes characters were placed on
Shelves == { PixelRect(ch).y : ch \in Needed }

\* C16: the atlas image has exactly image_width * image_height bytes in
\* row-major order, image_height being (number of shelves) * box height; for
\* every glyph placed at (x0, y0) the byte at (x0 + i, y0 + j) is byte (i, j)
\* of the glyph's bitmap for 0 <= i < width, 0 <= j < height; and every byte
\* no glyph's bitmap covers is zero.
C16_ImageLayout ==
  (NewCalled /\ f_out.result.ok) =>
    LET st == f_out.placed.val
        font == f_out.result.val
    IN /\ font.width = st.image_width /\ font.height = st.image_height
       /\ Len(font.image) = st.image_width * st.image_height
       /\ st.image_height = Cardinality(Shelves) * st.ch_box_height
       /\ \A ch \in Needed :
            \A i \in 0..(PixelRect(ch).w - 1), j \in 0..(PixelRect(ch).h - 1) :
              ImageAt(PixelRect(ch).x + i, PixelRect(ch).y + j) = BitmapAt(ch, i, j)
       /\ \A x \in 0..(st.image_width - 1), y \in 0..(st.image_height - 1) :
            (\A ch \in Needed : ~Covers(ch, x, y)) => ImageAt(x, y) = 0

\* C16 witness: an atlas of three inked glyphs of different heights on two
\* shelves or more, with padding under a glyph and at the end of a shelf
C16_Witness ==
  /\ NewCalled /\ f_out.result.ok
  /\ Cardinality(Needed) = 3
  /\ Cardinality(Shelves) >= 2
  /\ Cardinality({ PixelRect(ch).h : ch \in Needed }) >= 2
  /\ \A ch \in Needed : PixelRect(ch).w > 0 /\ PixelRect(ch).h > 1
  /\ \E y \in 0..(f_out.placed.val.image_height - 1) :
       /\ \A ch \in Needed : ~Covers(ch, f_out.placed.val.image_width - 1, y)
       /\ ImageAt(f_out.placed.val.image_width - 1, y) = 0

\* C19 (as claimed): for every non-empty character set on which the build
\* succeeds, the atlas has image_width >= 1 and image_height >= 1, so the
\* divisors that normalize the texture coordinates are never zero, also when
\* every requested glyph has an empty bitmap (a whitespace-only set).
C19_ImageNotEmpty ==
  (NewCalled /\ Needed # {} /\ f_out.result.ok) =>
    /\ f_out.placed.val.image_width >= 1
    /\ f_out.placed.val.image_height >= 1
    /\ f_out.result.val.width >= 1
    /\ f_out.result.val.height >= 1

(***************************************************************************)
(* grow_buffer_size on its own: one call on any pair of sizes.             *)
(***************************************************************************)
GrowInit ==
  /\ g_call \in [current_size : 0..MaxCurrent, desired_size : 0..MaxDesired]
  /\ g_ret = None
  /\ FontIdle /\ BuildIdle /\ RenderIdle

GrowCall ==
  /\ g_ret = None
  /\ g_ret' = Some(grow_buffer_size(g_call.current_size, g_call.desired_size))
  /\ UNCHANGED <<g_call, fvars, bvars, rvars>>

GrowNext == GrowCall

SpecGrow == GrowInit /\ [][GrowNext]_vars

RECURSIVE Pow2(_)
Pow2(k) == IF k = 0 THEN 1 ELSE 2 * Pow2(k - 1)

\* n is c * 2^k for the smallest k >= 0 with c * 2^k >= required
SmallestDoubling(n, c, required) ==
  \E k \in 0..MaxDoublings :
    /\ n = c * Pow2(k)
    /\ n >= required
    /\ k > 0 => c * Pow2(k - 1) < required

\* C8 (as claimed): grow(100, 300) equals 800.
C8_Grow100_300_Is800 ==
  (g_ret.some /\ g_call.current_size = 100 /\ g_call.desired_size = 300) =>
    g_ret.val = 800

\* C8 (amended): grow(100, 300) equals 400, the smallest power-of-two
\* multiple of 100 that is >= 300.
C8_Grow100_300_Is400 ==
  (g_ret.some /\ g_call.current_size = 100 /\ g_call.desired_size = 300) =>
    /\ g_ret.val = 400
    /\ SmallestDoubling(g_ret.val, 100, 300)

\* C8 witness: the call grow(100, 300) has returned
C8_Witness ==
  g_ret.some /\ g_call.current_size = 100 /\ g_call.desired_size = 300

\* C9: grow_buffer_size(current, required) is c * 2^k for c = max(current, 1)
\* and the smallest k >= 0 with c * 2^k >= required; so it is >= required,
\* >= c, non-decreasing in required, and grow(0, 5) = 8, grow(128, 128) = 128.
C9_GrowDoubling ==
  g_ret.some =>
    LET current == g_call.current_size
        required == g_call.desired_size
        c == Max(current, 1)
    IN /\ SmallestDoubling(g_ret.val, c, required)
       /\ g_ret.val >= required
       /\ g_ret.val >= c
       /\ required > 0 => grow_buffer_size(current, required - 1) <= g_ret.val
       /\ (current = 0 /\ required = 5) => g_ret.val = 8
       /\ (current = 128 /\ required = 128) => g_ret.val = 128

\* C9 witness: a call from capacity 0 that had to double three times
C9_Witness ==
  g_ret.some /\ g_call.current_size = 0 /\ g_call.desired_size = 5 /\ g_ret.val = 8

(***************************************************************************)
(* The builder as a state machine: new, any setters in any order (a later  *)
(* call of a setter replaces what an earlier one set), then build, which   *)
(* takes the builder by value and ends its life.                           *)
(***************************************************************************)
BuildInit == FontIdle /\ GrowIdle /\ BuildIdle /\ RenderIdle

\* a setter called with arg on the builder, leaving the fields b
Set(fn, arg, b) ==
  /\ builder.some /\ b_ret = None
  /\ Len(b_log) <= MaxSetters
  /\ builder' = Some(b)
  /\ b_log' = Append(b_log, [fn |-> fn, arg |-> arg])
  /\ UNCHANGED b_ret

\* include_font: whether the crate is compiled with the feature "include-font"
BuilderNew ==
  /\ builder = None
  /\ \E include_font \in BOOLEAN :
       /\ builder' = Some(RendererBuilder_new(include_font))
       /\ b_log' = <<[fn |-> "new", arg |-> include_font]>>
  /\ UNCHANGED b_ret

WithSize == \E size \in BuilderSizes : Set("with_size", size, with_size(builder.val, size))
WithFont == \E path \in BuilderPaths : Set("with_font", path, with_font(builder.val, path))
WithFontData ==
  \E data \in BuilderDatas : Set("with_font_data", data, with_font_data(builder.val, data))
WithBufferSize ==
  \E size \in BuilderBufferSizes :
    Set("with_buffer_size", size, with_buffer_size(builder.val, size))
WithChars == \E chars \in BuilderChars : Set("with_chars", chars, with_chars(builder.val, chars))

\* the faces of this machine map the same characters, so the set the hash
\* containers of a build iterate is the same whichever source build takes
BuildOrders(b) == Perms(needed_chars(DefaultFace, b.chars))

Build ==
  /\ builder.some /\ b_ret = None
  /\ \E sizeOk, texOk, shadersOk \in BOOLEAN :
       \E order \in BuildOrders(builder.val) :
         b_ret' = Some([sizeOk |-> sizeOk, order |-> order, texOk |-> texOk,
                        shadersOk |-> shadersOk,
                        ret |-> build(builder.val, sizeOk, {}, order, texOk, shadersOk)])
  /\ UNCHANGED <<builder, b_log>>

BuildNext ==
  /\ \/ BuilderNew \/ WithSize \/ WithFont \/ WithFontData \/ WithBufferSize \/ WithChars
     \/ Build
  /\ UNCHANGED <<fvars, gvars, rvars>>

SpecBuild == BuildInit /\ [][BuildNext]_vars

(***************************************************************************)
(* Properties of the builder.                                              *)
(***************************************************************************)
\* the argument of the last call of fn on the builder, if there was one
LastArg(fn) ==
  LET calls == { i \in 1..Len(b_log) : b_log[i].fn = fn } IN
  IF calls = {} THEN None
  ELSE Some(b_log[CHOOSE i \in calls : \A j \in calls : j <= i].arg)

\* the font sources the builder has when build is called
EmbeddedFont == IF LastArg("new").val THEN Some(DefaultFace) ELSE None
PathFont == LastArg("with_font")
CallerFont == LastArg("with_font_data")

\* what the constructor for a source gives build under the finished call's
\* FreeType answers and hash order; NoFont for no source
FontVia(fn, source) ==
  IF ~source.some THEN Err("NoFont")
  ELSE IF fn = "from_path"
  THEN from_path(source.val, builder.val.font_size, builder.val.chars,
                 b_ret.val.sizeOk, {}, b_ret.val.order).result
  ELSE from_bytes(source.val, builder.val.font_size, builder.val.chars,
                  b_ret.val.sizeOk, {}, b_ret.val.order).result

\* the font of the finished build, or the error build returned
BuiltFont ==
  IF b_ret.val.ret.ok THEN Ok(b_ret.val.ret.val.font_bitmap) ELSE b_ret.val.ret

\* a finished build whose texture and shaders the factory made
Built == b_ret.some /\ b_ret.val.texOk /\ b_ret.val.shadersOk

\* C15 (as claimed): with more than one font source available, build takes
\* the embedded default font bytes first, then the file path, then the
\* caller-supplied bytes: a source earlier in that order is used whenever it
\* is present.
C15_DefaultThenPathThenBytes ==
  Built =>
    BuiltFont =
      IF EmbeddedFont.some THEN FontVia("from_bytes", EmbeddedFont)
      ELSE IF PathFont.some THEN FontVia("from_path", PathFont)
      ELSE FontVia("from_bytes", CallerFont)

\* C15 (amended): build takes the file path of the last with_font call
\* whenever there was one (and fails if that font cannot be read, whatever
\* other source there is); otherwise the bytes of the last with_font_data
\* call if there was one; otherwise the embedded default font bytes if the
\* crate was compiled with them; otherwise it fails with NoFont.
C15_PathThenBytesThenDefault ==
  Built =>
    BuiltFont =
      IF PathFont.some THEN FontVia("from_path", PathFont)
      ELSE IF CallerFont.some THEN FontVia("from_bytes", CallerFont)
      ELSE IF EmbeddedFont.some THEN FontVia("from_bytes", EmbeddedFont)
      ELSE Err("NoFont")

\* C15 witness: a build with all three sources present that succeeded with
\* the font of the path, which is neither of the other two
C15_Witness ==
  /\ Built
  /\ EmbeddedFont.some /\ PathFont.some /\ CallerFont.some
  /\ b_ret.val.ret.ok
  /\ BuiltFont = FontVia("from_path", PathFont)
  /\ BuiltFont # FontVia("from_bytes", EmbeddedFont)
  /\ BuiltFont # FontVia("from_bytes", CallerFont)

(***************************************************************************)
(* The renderer as a state machine: built, then any calls in any order.    *)
(***************************************************************************)
\* the renderer's fields as one record, and back
Fields ==
  [font_bitmap |-> font_bitmap, vertex_data |-> vertex_data, index_data |-> index_data,
   vertex_buffer |-> vertex_buffer, index_buffer |-> index_buffer, pso_map |-> pso_map]

\* the order the atlas of a renderer was packed in: the texts of this
\* machine are laid out the same whatever it was, so one order stands for all
HashOrders(face, chars) ==
  { CHOOSE order \in Perms(needed_chars(face, chars)) : TRUE }

\* whether create_pipeline_state can matter to a flush
PsoOutcomes(format) == IF format \in pso_map THEN {TRUE} ELSE BOOLEAN

Init ==
  /\ FontIdle /\ GrowIdle /\ BuildIdle
  /\ last = NoCall
  /\ \E b \in RenderBuilders :
       \E order \in HashOrders(IF b.font_path.some THEN b.font_path.val ELSE b.font_data.val,
                               b.chars) :
         LET built == build(b, TRUE, {}, order, TRUE, TRUE) IN
         /\ built.ok
         /\ font_bitmap = built.val.font_bitmap
         /\ vertex_data = built.val.vertex_data
         /\ index_data = built.val.index_data
         /\ vertex_buffer = built.val.vertex_buffer
         /\ index_buffer = built.val.index_buffer
         /\ pso_map = built.val.pso_map

\* the quads a text adds: its characters that are in the atlas
RECURSIVE QuadsOf(_, _)
QuadsOf(font, text) ==
  IF text = <<>> THEN 0
  ELSE (IF find_char(font, Head(text)).some THEN 1 ELSE 0) + QuadsOf(font, Tail(text))

\* the bound on the pending lists
Fits(text) == Len(vertex_data) \div 4 + QuadsOf(font_bitmap, text) <= MaxQuads

\* an add* call leaves the lists acc holds
Added(acc, call) ==
  /\ vertex_data' = acc.vertex_data
  /\ index_data' = acc.index_data
  /\ last' = [call EXCEPT !.ver_len = Len(vertex_data), !.ind_len = Len(index_data)]
  /\ UNCHANGED <<font_bitmap, vertex_buffer, index_buffer, pso_map, fvars, gvars, bvars>>

AddCall(op, text, pos, color) ==
  [op |-> op, text |-> text, pos |-> pos, color |-> color,
   horizontal |-> "Left", vertical |-> "Top", ver_len |-> 0, ind_len |-> 0]

Add ==
  \E text \in Texts, pos \in ScreenPositions, color \in Colors :
    /\ Fits(text)
    /\ Added(add(font_bitmap, vertex_data, index_data, text, pos, color),
             AddCall("add", text, pos, color))

AddAnchored ==
  \E text \in Texts, pos \in ScreenPositions, color \in Colors, anchor \in Anchors :
    /\ Fits(text)
    /\ Added(add_anchored(font_bitmap, vertex_data, index_data, text, pos,
                          anchor[1], anchor[2], color),
             [AddCall("add_anchored", text, pos, color) EXCEPT
                !.horizontal = anchor[1], !.vertical = anchor[2]])

AddAt ==
  \E text \in Texts, pos \in WorldPositions, color \in Colors :
    /\ Fits(text)
    /\ Added(add_at(font_bitmap, vertex_data, index_data, text, pos, color),
             AddCall("add_at", text, pos, color))

Measure ==
  \E text \in Texts :
    /\ last' = [op |-> "measure", text |-> text, ret |-> measure(font_bitmap, text)]
    /\ UNCHANGED <<font_bitmap, vertex_data, index_data, vertex_buffer, index_buffer,
                   pso_map, fvars, gvars, bvars>>

\* a flush leaves the fields d.r
Flushed(op, format, proj, d) ==
  /\ vertex_data' = d.r.vertex_data
  /\ index_data' = d.r.index_data
  /\ vertex_buffer' = d.r.vertex_buffer
  /\ index_buffer' = d.r.index_buffer
  /\ pso_map' = d.r.pso_map
  /\ last' = [op |-> op, format |-> format, proj |-> proj, ret |-> d.ret,
              ver_len |-> Len(vertex_data), ind_len |-> Len(index_data),
              ver_buf_len |-> vertex_buffer, ind_buf_len |-> index_buffer,
              uploaded |-> d.uploaded, draw_call |-> d.draw_call]
  /\ UNCHANGED <<font_bitmap, fvars, gvars, bvars>>

Draw ==
  \E format \in Formats :
    \E psoOk \in PsoOutcomes(format) :
    Flushed("draw", format, DEFAULT_PROJECTION, draw(Fields, format, psoOk))

DrawAt ==
  \E format \in Formats, proj \in Projections :
    \E psoOk \in PsoOutcomes(format) :
    Flushed("draw_at", format, proj, draw_at(Fields, format, proj, psoOk))

Next == Add \/ AddAnchored \/ AddAt \/ Measure \/ Draw \/ DrawAt

Spec == Init /\ [][Next]_vars

(***************************************************************************)
(* Properties of the renderer.                                             *)
(***************************************************************************)
InAtlas(ch) == find_char(font_bitmap, ch).some
AllInAtlas(text) == \A i \in 1..Len(text) : InAtlas(text[i])
NoneInAtlas(text) == \A i \in 1..Len(text) : ~InAtlas(text[i])

\* the characters of text that are in the atlas, in order
AtlasChars(text) == SelectSeq(text, InAtlas)

\* what the last add* call appended to the pending lists
AppendedVertices == SubSeq(vertex_data, last.ver_len + 1, Len(vertex_data))
AppendedIndices == SubSeq(index_data, last.ind_len + 1, Len(index_data))

\* C4 (as claimed): for a string of n characters all in the atlas, add
\* appends exactly 4n vertices and 6n indices, and every appended index is < 4n.
C4_IndicesBelow4n ==
  (last.op = "add" /\ AllInAtlas(last.text)) =>
    LET n == Len(last.text) IN
    /\ Len(vertex_data) = last.ver_len + 4 * n
    /\ Len(index_data) = last.ind_len + 6 * n
    /\ \A i \in 1..Len(AppendedIndices) : AppendedIndices[i] < 4 * n

\* C4 (amended): for a string of n characters all in the atlas, add appends
\* exactly 4n vertices and 6n indices, and the appended indices are a triangle
\* list over the appended vertices: with m vertices pending before the call,
\* every appended index is >= m and < m + 4n.
C4_IndicesOverAppended ==
  (last.op = "add" /\ AllInAtlas(last.text)) =>
    LET n == Len(last.text)
        m == last.ver_len
    IN /\ Len(vertex_data) = m + 4 * n
       /\ Len(index_data) = last.ind_len + 6 * n
       /\ \A i \in 1..Len(AppendedIndices) :
            AppendedIndices[i] >= m /\ AppendedIndices[i] < m + 4 * n

\* C4 witness: add of a one-character text of the atlas onto one pending quad
C4_Witness ==
  /\ last.op = "add" /\ AllInAtlas(last.text)
  /\ Len(last.text) = 1
  /\ last.ver_len = 4
  /\ Len(vertex_data) = 8

\* the origin the claim gives add_anchored for a measured size <<w, h>>
AnchoredOrigin(pos, horizontal, vertical, w, h) ==
  << CASE horizontal = "Left" -> pos[1]
       [] horizontal = "Center" -> pos[1] - TruncDiv(w, 2)
       [] horizontal = "Right" -> pos[1] - w,
     CASE vertical = "Top" -> pos[2]
       [] vertical = "Center" -> pos[2] - TruncDiv(h, 2)
       [] vertical = "Bottom" -> pos[2] - h >>

\* vertex v moved by <<dx, dy>>
Shifted(v, dx, dy) == [v EXCEPT !.pos = <<v.pos[1] + dx, v.pos[2] + dy>>]

\* C5: add_anchored(text, pos, h, v, color) appends the vertices and indices
\* add(text, [x', y'], color) appends, x' and y' being pos moved by the
\* measured size as the anchors say (integer division); (Left, Top) is add
\* itself, and (Center, Center) moves every vertex add would emit by
\* (-w/2, -h/2).
C5_AnchoredIsShiftedAdd ==
  [][ last'.op = "add_anchored" =>
        LET c == last'
            m == measure(font_bitmap, c.text)
            origin == AnchoredOrigin(c.pos, c.horizontal, c.vertical, m[1], m[2])
            moved == add(font_bitmap, vertex_data, index_data, c.text, origin, c.color)
            plain == add(font_bitmap, vertex_data, index_data, c.text, c.pos, c.color)
        IN /\ vertex_data' = moved.vertex_data
           /\ index_data' = moved.index_data
           /\ (c.horizontal = "Left" /\ c.vertical = "Top") =>
                vertex_data' = plain.vertex_data /\ index_data' = plain.index_data
           /\ (c.horizontal = "Center" /\ c.vertical = "Center") =>
                /\ index_data' = plain.index_data
                /\ Len(vertex_data') = Len(plain.vertex_data)
                /\ \A i \in 1..Len(plain.vertex_data) :
                     vertex_data'[i] =
                       IF i <= Len(vertex_data) THEN vertex_data[i]
                       ELSE Shifted(plain.vertex_data[i],
                                    -TruncDiv(m[1], 2), -TruncDiv(m[2], 2))
    ]_vars

\* C5 witness: a (Center, Center) call that emitted a quad for a text whose
\* measured width is negative and odd
C5_Witness ==
  /\ last.op = "add_anchored"
  /\ last.horizontal = "Center" /\ last.vertical = "Center"
  /\ Len(vertex_data) > last.ver_len
  /\ measure(font_bitmap, last.text)[1] < 0
  /\ measure(font_bitmap, last.text)[1] % 2 = 1

\* the sum of x_advance over a sequence of characters of the atlas
RECURSIVE TotalAdvance(_)
TotalAdvance(chs) ==
  IF chs = <<>> THEN 0
  ELSE font_bitmap.chars[Head(chs)].x_advance + TotalAdvance(Tail(chs))

\* the distance add moves the cursor over text
CursorAdvance(text) ==
  add(font_bitmap, <<>>, <<>>, text, <<0, 0>>, <<0, 0, 0, 0>>).x

\* y_offset + height of the characters of a sequence, and their maximum
Bottoms(chs) ==
  { font_bitmap.chars[chs[i]].y_offset + font_bitmap.chars[chs[i]].height : i \in 1..Len(chs) }
MaxOf(S) == CHOOSE m \in S : \A x \in S : x <= m

\* C6 (as claimed): the width measure returns is the total advance, the sum of
\* x_advance over the characters of text in the atlas (the distance add moves
\* the cursor), and the height is the maximum of y_offset + height over them.
C6_WidthIsTotalAdvance ==
  last.op = "measure" =>
    LET chs == AtlasChars(last.text) IN
    /\ last.ret[1] = TotalAdvance(chs)
    /\ last.ret[1] = CursorAdvance(last.text)
    /\ chs # <<>> => last.ret[2] = MaxOf(Bottoms(chs))

\* C6 (amended): the width measure returns is the total advance of the
\* characters of text in the atlas with the last of them counted by
\* x_offset + width in place of its x_advance (the right edge of the last
\* glyph), 0 when none is in the atlas; the height is the maximum of 0 and of
\* y_offset + height over them.
C6_WidthToLastGlyphEdge ==
  last.op = "measure" =>
    LET chs == AtlasChars(last.text)
        final == font_bitmap.chars[chs[Len(chs)]]
    IN /\ TotalAdvance(chs) = CursorAdvance(last.text)
       /\ last.ret[1] =
            IF chs = <<>> THEN 0
            ELSE TotalAdvance(chs) - final.x_advance + final.x_offset + final.width
       /\ last.ret[2] = MaxOf(Bottoms(chs) \cup {0})

\* C6 witness: a measured text of two characters of the atlas whose width is
\* not its total advance
C6_Witness ==
  /\ last.op = "measure"
  /\ Len(AtlasChars(last.text)) = 2
  /\ last.ret[1] # TotalAdvance(AtlasChars(last.text))

\* C7: measure("") returns (0, 0), as it does for every text none of whose
\* characters is in the atlas, and measure never changes the pending lists.
C7_MeasureNothing ==
  /\ [](last.op = "measure" /\ NoneInAtlas(last.text) => last.ret = <<0, 0>>)
  /\ [][last'.op = "measure" => UNCHANGED <<vertex_data, index_data>>]_vars

\* C7 witness: a non-empty text with no character of the atlas, measured
\* while a quad is pending
C7_Witness ==
  /\ last.op = "measure"
  /\ last.text # <<>> /\ NoneInAtlas(last.text)
  /\ last.ret = <<0, 0>>
  /\ vertex_data # <<>>

FlushOps == {"draw", "draw_at"}

\* C10: over any calls, neither GPU buffer's capacity ever decreases; each
\* changes only in a flush whose pending list is longer than the capacity;
\* add, add_anchored, add_at and measure change neither.
C10_CapacityNeverShrinks ==
  [][ /\ vertex_buffer' >= vertex_buffer
      /\ index_buffer' >= index_buffer
      /\ vertex_buffer' # vertex_buffer =>
           last'.op \in FlushOps /\ Len(vertex_data) > vertex_buffer
      /\ index_buffer' # index_buffer =>
           last'.op \in FlushOps /\ Len(index_data) > index_buffer
      /\ last'.op \notin FlushOps => UNCHANGED <<vertex_buffer, index_buffer>>
    ]_vars

\* C10 witness: a flush that grew a vertex buffer already grown once
C10_Witness ==
  /\ last.op \in FlushOps
  /\ last.ver_buf_len > 3
  /\ vertex_buffer > last.ver_buf_len
  /\ index_buffer > last.ind_buf_len

\* C11: a flush (draw, draw_at) called with zero pending quads reallocates
\* neither the vertex buffer nor the index buffer, whatever their capacities
\* (capacity 0 included), and the draw call it issues, if any, has index
\* count zero.
C11_EmptyFlush ==
  (last.op \in FlushOps /\ last.ver_len = 0 /\ last.ind_len = 0) =>
    /\ vertex_buffer = last.ver_buf_len
    /\ index_buffer = last.ind_buf_len
    /\ last.draw_call.some =>
         last.draw_call.val.start = 0 /\ last.draw_call.val.end = 0

\* C11 witness: a flush of nothing on buffers of capacity 0 that issued its
\* draw call
C11_Witness ==
  /\ last.op \in FlushOps
  /\ last.ver_len = 0 /\ last.ind_len = 0
  /\ last.ver_buf_len = 0 /\ last.ind_buf_len = 0
  /\ last.draw_call.some

\* C12 (as claimed): once a flush (draw, draw_at) has uploaded the pending
\* vertex and index lists, both lists are empty when the flush returns, on
\* every path out of it after the upload (the path where preparing the
\* pipeline state fails included).
C12_ListsClearedAfterUpload ==
  (last.op \in FlushOps /\ last.uploaded.some) =>
    vertex_data = <<>> /\ index_data = <<>>

\* the pending lists as they were before the last add* call
VerticesBefore == SubSeq(vertex_data, 1, last.ver_len)
IndicesBefore == SubSeq(index_data, 1, last.ind_len)

\* C13: characters absent from the atlas contribute no geometry and do not
\* advance the cursor: for every text, add(text, pos, color) appends exactly
\* the vertices and indices add would append for text with its non-atlas
\* characters removed, and leaves the cursor where that call would.
C13_UnknownCharsSkipped ==
  last.op = "add" =>
    LET whole == add(font_bitmap, VerticesBefore, IndicesBefore,
                     last.text, last.pos, last.color)
        known == add(font_bitmap, VerticesBefore, IndicesBefore,
                     AtlasChars(last.text), last.pos, last.color)
    IN /\ vertex_data = known.vertex_data
       /\ index_data = known.index_data
       /\ whole = known
       /\ Len(vertex_data) = last.ver_len + 4 * Len(AtlasChars(last.text))

\* C13 witness: add of a text whose first character is not in the atlas and
\* whose second is, onto a pending quad
C13_Witness ==
  /\ last.op = "add"
  /\ Len(last.text) = 2
  /\ ~InAtlas(last.text[1]) /\ InAtlas(last.text[2])
  /\ last.ver_len = 4
  /\ Len(vertex_data) = 8

\* four vertices are the corners of one axis-aligned rectangle in the order
\* top-left, bottom-left, bottom-right, top-right (y grows downwards), in
\* position and in texture coordinates
IsQuad(tl, bl, br, tr) ==
  /\ bl.pos[1] = tl.pos[1] /\ br.pos[1] = tr.pos[1] /\ tr.pos[1] >= tl.pos[1]
  /\ tr.pos[2] = tl.pos[2] /\ br.pos[2] = bl.pos[2] /\ bl.pos[2] >= tl.pos[2]
  /\ bl.tex[1] = tl.tex[1] /\ br.tex[1] = tr.tex[1]
  /\ tr.tex[2] = tl.tex[2] /\ br.tex[2] = bl.tex[2]

\* C17: after any sequence of add, add_anchored, add_at and flush calls the
\* pending lists hold whole quads: for some q the vertex list has 4q entries
\* and the index list 6q, and for each j < q the j-th group of six indices is
\* (4j, 4j+1, 4j+3, 4j+3, 4j+1, 4j+2), the triangles (TL, BL, TR) and
\* (TR, BL, BR) over the j-th quad's own vertices, stored in the order TL, BL,
\* BR, TR; so every pending index is below the pending vertex count.
C17_WholeQuads ==
  \E q \in 0..Len(vertex_data) :
    /\ Len(vertex_data) = 4 * q
    /\ Len(index_data) = 6 * q
    /\ \A j \in 0..(q - 1) :
         /\ SubSeq(index_data, 6 * j + 1, 6 * j + 6) =
              << 4 * j, 4 * j + 1, 4 * j + 3, 4 * j + 3, 4 * j + 1, 4 * j + 2 >>
         /\ IsQuad(vertex_data[4 * j + 1], vertex_data[4 * j + 2],
                   vertex_data[4 * j + 3], vertex_data[4 * j + 4])
    /\ \A i \in 1..Len(index_data) : index_data[i] < Len(vertex_data)

\* C17 witness: two quads of non-empty glyphs pending, the first added at a
\* screen position and the second by add_at
C17_Witness ==
  /\ last.op = "add_at"
  /\ last.ver_len = 4
  /\ Len(vertex_data) = 8
  /\ vertex_data[1].screen_rel = 1 /\ vertex_data[5].screen_rel = 0
  /\ vertex_data[7].pos[1] > vertex_data[5].pos[1]
  /\ vertex_data[7].pos[2] > vertex_data[5].pos[2]

\* C18: in every flush, whatever the initial buffer size (0 included) and
\* however many quads were added since the last flush, when the lists are
\* uploaded the vertex buffer's capacity is >= the number of pending vertices
\* and the index buffer's capacity >= the number of pending indices, so both
\* uploads fit; and the index count given to the draw call is the number of
\* pending indices that were uploaded.
C18_UploadFits ==
  last.op \in FlushOps =>
    /\ last.uploaded.some
    /\ Len(last.uploaded.val.vertices) = last.ver_len
    /\ Len(last.uploaded.val.indices) = last.ind_len
    /\ last.uploaded.val.vertex_buffer >= last.ver_len
    /\ last.uploaded.val.index_buffer >= last.ind_len
    /\ last.uploaded.val.vertex_buffer = vertex_buffer
    /\ last.uploaded.val.index_buffer = index_buffer
    /\ last.draw_call.some =>
         /\ last.draw_call.val.start = 0
         /\ last.draw_call.val.end = Len(last.uploaded.val.indices)

\* C18 witness: a flush of two quads that had to grow both buffers, the index
\* buffer to more than the indices need, and issued its draw call
C18_Witness ==
  /\ last.op \in FlushOps
  /\ last.ver_len = 8 /\ last.ind_len = 12
  /\ last.ver_buf_len < 8 /\ last.ind_buf_len < 12
  /\ last.uploaded.some
  /\ last.uploaded.val.index_buffer > 12
  /\ last.draw_call.some /\ last.draw_call.val.end = 12

====
